---- MODULE Spec2Model ----
(***************************************************************************)
(* Model of the voice-call debt collection workflow,                       *)
(* src/workflows/debt_collection.py (class DebtCollectionWorkflow).        *)
(*                                                                         *)
(* The workflow is one asyncio coroutine.  It gives up control only at an  *)
(* await (session.say, asyncio.sleep), so the position "pc" of the         *)
(* coroutine names the await at which it is suspended, and one action of   *)
(* the model is: that await completes (a say completes or raises), and the *)
(* code runs up to the next await.  The event callbacks on_user_input and  *)
(* on_conversation_item_added are called by the session's event emitter    *)
(* while the coroutine is suspended (and before run() starts and after it  *)
(* ends: they are registered in __init__ and never removed).               *)
(*                                                                         *)
(* Spec is one call of the workflow.  Four smaller specifications share   *)
(* its definitions: ExtractSpec calls extract_digits on its own,           *)
(* ReferenceSpec compares the reference numbers of several resolutions,    *)
(* SideBySideSpec runs two workflow objects side by side, and AgentSpec is *)
(* DebtCollectionAgent._handle_resolution with _save_transcript            *)
(* (src/main.py).                                                          *)
(*                                                                         *)
(* A text is a sequence of one-character strings.  A value that may be     *)
(* Python's None is a sequence of length 0 (None) or 1 (the value).        *)
(***************************************************************************)
EXTENDS Integers, Sequences, FiniteSets, TLC

VARIABLES
    pc,                 \* the await at which the coroutine is suspended
    compliant,          \* what check_compliance answers for this call
    waiting_for_input,  \* self.waiting_for_input
    captured_input,     \* self.captured_input (None or a text)
    context,            \* self.context, a dict: keys present -> values
    ref_number,         \* local ref_number of handle_resolution (None or value)
    exc,                \* the exception bound to e in handle_resolution's handler
    now,                \* the latest reading of datetime.utcnow()
    said,               \* history: every session.say attempted, with its outcome
    firstEvent,         \* history: the first event delivered since the last arm
    nEvents,            \* history: number of events delivered since the last arm
    reads,              \* history: the inputs read (line 102) by the verify_identity
                        \*          call in progress
    waited,             \* history: polls completed by the wait loop in progress,
                        \*          counted modulo MaxPolls + 1
    entry,              \* the coroutine the host called on the workflow
    raised,             \* the exception that left run() (None or the say that
                        \* raised it)
    call,               \* a function of the workflow called on its own: None or
                        \* the call, with its argument and its result
    issued,             \* the reference numbers of the resolutions of several
                        \* calls, each with the clock reading of its line 232
    workflows,          \* two workflow objects side by side: the attributes of
                        \* each (context is a reference into heap) and the
                        \* place of its coroutine
    heap,               \* the dict objects the context attributes refer to
    actor,              \* history: the workflow that took the last step
    agent_pc,           \* DebtCollectionAgent._handle_resolution (src/main.py):
                        \* the await at which it is suspended
    has_history,        \* hasattr(session, "history")
    agent_now,          \* the latest reading of datetime.now() by the agent
    resolution_details, \* local resolution_details of _handle_resolution
    agent_said,         \* history: every session.say it attempted, with its outcome
    agent_log,          \* the records given to the logger
    transcripts         \* the files of transcripts_dir: path -> what was written

\* the variables of a call of the workflow
workflow_vars ==
    << pc, compliant, waiting_for_input, captured_input, context,
       ref_number, exc, now, said, firstEvent, nEvents, reads, waited, entry,
       raised >>

\* the variables of the other specifications, which a call leaves alone
aux ==
    << call, issued, workflows, heap, actor,
       agent_pc, has_history, agent_now, resolution_details, agent_said,
       agent_log, transcripts >>

vars == << workflow_vars, aux >>

----------------------------------------------------------------------------
(* Bounds of the model *)

\* verification attempts (prompt/capture cycles) explored in one call
MaxAttempts == 4
\* events delivered between two arms of the synchronizer
MaxEvents == 2
\* the polls of a wait loop are counted 0..MaxPolls, then again from 0
MaxPolls == 2
\* clock readings are 0..MaxClock seconds after the call's start
MaxClock == 1
\* the length of the texts extract_digits is called on, on its own
MaxText == 5
\* the resolutions whose reference numbers are compared
MaxResolutions == 2

----------------------------------------------------------------------------
(* Values *)

None == << >>
Some(x) == << x >>

Digits == { "0", "1", "2", "3", "4", "5", "6", "7", "8", "9" }

\* the account value verify_identity compares with, "1234" (line 114)
ExpectedAccount == << "1", "2", "3", "4" >>

\* the texts an event may carry
Texts ==
    { << "a", "b", "c" >>,
      << "1", "2" >>,
      << "9", "9", "9", "9" >>,
      << "1", "2", "3", "4" >>,
      << "n", "o", "5", "1", "2", "3", "4" >> }

\* the characters of the texts extract_digits is called on, on its own
Alphabet == { "4", "9", "a", "-" }

\* all the texts of at most n characters of the alphabet
TextsUpTo(n) == UNION { [ 1..k -> Alphabet ] : k \in 0..n }

\* the texts extract_digits is called on, on its own
ExtractInputs ==
    TextsUpTo(MaxText) \cup Texts \cup { << "1", "2", "3", "4", "9", "9" >> }

\* the workflow objects of two calls that run side by side
Instances == { "call_1", "call_2" }

\* the texts of conversation items (the handler never reads them)
ItemTexts == { << "a", "b", "c" >>, << "9", "9", "9", "9" >> }

\* the role of a conversation item
Roles == { "user", "agent", "system" }

\* events: a transcription (always the user's speech) or a conversation item
TranscribedEvent(t) == [ chan |-> "transcribed", role |-> "user", text |-> t ]
ItemEvent(r, t) == [ chan |-> "item", role |-> r, text |-> t ]

----------------------------------------------------------------------------
(* Pure functions *)

\* str.isdigit(): non-empty and every character a digit
isdigit(s) == Len(s) > 0 /\ \A i \in 1..Len(s) : s[i] \in Digits

\* faulty variant: the first 4 digits instead of the last 4
extract_digits_first4(text) ==
    LET digits == SelectSeq(text, LAMBDA c : c \in Digits)
    IN  IF Len(digits) >= 4 THEN SubSeq(digits, 1, 4) ELSE digits

\* faulty variant: all the digits, however many
extract_digits_untruncated(text) == SelectSeq(text, LAMBDA c : c \in Digits)

\* extract_digits: re.findall(r"\d", text), then the last 4 when there are
\* at least 4 digits, else all of them
extract_digits(text) ==
    LET digits == SelectSeq(text, LAMBDA c : c \in Digits)
    IN  IF Len(digits) >= 4
        THEN SubSeq(digits, Len(digits) - 3, Len(digits))
        ELSE digits

\* line 108: account_last4.isdigit() and len(account_last4) == 4
is_four_digits(account_last4) ==
    isdigit(account_last4) /\ Len(account_last4) = 4

\* faulty variant: the comparison with the records is left out
matches_records_any(account_last4) == TRUE

\* line 114: account_last4 != "1234" is the mismatch
matches_records(account_last4) == account_last4 = ExpectedAccount

\* dict.update: keys of upd are added or overwritten
Update(d, upd) ==
    [ k \in DOMAIN d \cup DOMAIN upd |-> IF k \in DOMAIN upd THEN upd[k] ELSE d[k] ]

\* the empty dict {}
EmptyDict == [ k \in {} |-> None ]

(* The clock.  A reading t is the number of seconds after the instant Epoch. *)
Epoch == [ Y |-> 2025, M |-> 6, D |-> 1 ]
SecondsPerDay == 24 * 60 * 60

\* the calendar fields of reading t (readings stay inside the month of Epoch)
Civil(t) ==
    [ Y |-> Epoch.Y, M |-> Epoch.M, D |-> Epoch.D + (t \div SecondsPerDay),
      h |-> (t % SecondsPerDay) \div 3600, m |-> (t % 3600) \div 60, s |-> t % 60 ]

DigitChars == << "0", "1", "2", "3", "4", "5", "6", "7", "8", "9" >>
Pad2(n) == << DigitChars[((n \div 10) % 10) + 1], DigitChars[(n % 10) + 1] >>
Pad4(n) == Pad2(n \div 100) \o Pad2(n % 100)

\* datetime.strftime('%Y%m%d%H%M%S')
strftime_YmdHMS(t) ==
    LET c == Civil(t)
    IN  Pad4(c.Y) \o Pad2(c.M) \o Pad2(c.D) \o Pad2(c.h) \o Pad2(c.m) \o Pad2(c.s)

\* datetime.strftime("%B %d, %Y")
strftime_BdY(t) ==
    LET c == Civil(t)
    IN  << "J", "u", "n", "e", " " >> \o Pad2(c.D) \o << ",", " " >> \o Pad4(c.Y)

\* datetime.isoformat(), to the second
isoformat(t) ==
    LET c == Civil(t)
    IN  Pad4(c.Y) \o << "-" >> \o Pad2(c.M) \o << "-" >> \o Pad2(c.D) \o << "T" >>
        \o Pad2(c.h) \o << ":" >> \o Pad2(c.m) \o << ":" >> \o Pad2(c.s)

\* datetime.strftime("%Y%m%d_%H%M%S") (src/main.py, line 288)
strftime_Ymd_HMS(t) ==
    LET c == Civil(t)
    IN  Pad4(c.Y) \o Pad2(c.M) \o Pad2(c.D) \o << "_" >>
        \o Pad2(c.h) \o Pad2(c.m) \o Pad2(c.s)

\* timedelta(days=n) added to a reading
plus_days(t, n) == t + n * SecondsPerDay

\* faulty variant: the clock is rendered to the minute
make_ref_number_to_minute(t) ==
    LET c == Civil(t)
    IN  << "R", "E", "F", "-" >>
        \o Pad4(c.Y) \o Pad2(c.M) \o Pad2(c.D) \o Pad2(c.h) \o Pad2(c.m)

\* line 232: f"REF-{datetime.utcnow().strftime('%Y%m%d%H%M%S')}"
make_ref_number(t) == << "R", "E", "F", "-" >> \o strftime_YmdHMS(t)

\* readings of the clock at which resolutions complete: around the turns of
\* the minute, the hour and the day
ResolutionClock ==
    { d * SecondsPerDay + h * 3600 + m * 60 + sec :
        d \in { 0, 1 }, h \in { 0, 1, 23 }, m \in { 0, 1, 59 }, sec \in { 0, 1, 59 } }

\* the readings datetime.utcnow() may give after the reading t
ClockAfter(t) == t .. MaxClock

----------------------------------------------------------------------------
(* Workflow objects, lines 28-44 *)

\* faulty variant: one dict, shared by the objects of the class
new_context_shared(w) == "dict_of_the_class"

\* line 33: the dict display creates a new dict object at each construction;
\* the reference to it is named after the workflow it was created for
new_context(w) == << "dict_of", w >>

\* lines 33-37: the dict as created
initial_context ==
    [ verified |-> FALSE,
      customer_info |-> EmptyDict,
      call_start_time |-> isoformat(0) ]

\* lines 30-37: the attributes of the workflow object w as constructed
new_workflow(w) ==
    [ waiting_for_input |-> FALSE,
      captured_input |-> None,
      context |-> new_context(w),
      at |-> "init" ]

----------------------------------------------------------------------------
(* The state after DebtCollectionWorkflow(session), lines 28-44.  The region
   rule behind check_compliance is supplied from outside the workflow (the
   method stands in for it and answers True), so its answer is an input of
   the call. *)
Init ==
    /\ pc = "init"
    /\ entry = "none"
    /\ compliant \in BOOLEAN
    /\ waiting_for_input = FALSE
    /\ captured_input = None
    /\ now = 0
    /\ context = [ verified |-> FALSE,
                   customer_info |-> EmptyDict,
                   call_start_time |-> isoformat(0) ]
    /\ ref_number = None
    /\ exc = None
    /\ said = << >>
    /\ firstEvent = None
    /\ nEvents = 0
    /\ reads = << >>
    /\ waited = 0
    /\ raised = None
    /\ call = None
    /\ issued = { }
    /\ workflows = [ w \in Instances |-> new_workflow(w) ]
    /\ heap = [ a \in { new_context(w) : w \in Instances } |-> initial_context ]
    /\ actor = None
    /\ agent_pc = "init"
    /\ has_history = FALSE
    /\ agent_now = 0
    /\ resolution_details = None
    /\ agent_said = << >>
    /\ agent_log = << >>
    /\ transcripts = EmptyDict

----------------------------------------------------------------------------
(* Building blocks *)

\* session.say(u) completes: the utterance u has been spoken
Spoke(u) == said' = Append(said, [ u |-> u, ok |-> TRUE ])
\* session.say(u) raises
SayRaised(u) == said' = Append(said, [ u |-> u, ok |-> FALSE ])

\* self.waiting_for_input = True (lines 85, 177, 244); captured_input is kept
arm ==
    /\ waiting_for_input' = TRUE
    /\ captured_input' = captured_input
    /\ firstEvent' = None
    /\ nEvents' = 0
    /\ waited' = 0

\* check_compliance, lines 145-149
check_compliance == compliant

\* faulty variant: the handler raises again without the apology
run_except_no_apology == pc' = "raised"

\* an exception reaches run()'s handler, lines 63-65: the apology is said next
run_except == pc' = "say_technical_issue"

\* faulty variant: the loop is left without waiting for the flag
wait_loop_next_no_wait(waiting) == "sleep_settle"

\* line 91: while self.waiting_for_input -> sleep(1), else sleep(3)
wait_loop_next(waiting) == IF waiting THEN "sleep_poll" ELSE "sleep_settle"

noSync == UNCHANGED << waiting_for_input, captured_input, firstEvent, nEvents, waited >>
noData == UNCHANGED << aux, compliant, raised, context, ref_number, exc, now, entry >>

----------------------------------------------------------------------------
(* run(), lines 46-66, and start_conversation(), lines 68-73 *)

\* faulty variant: the answer of check_compliance is not used
run_start_no_gate ==
    /\ pc = "init"
    /\ entry' = "run"
    /\ pc' = "say_compliance_warning"
    /\ UNCHANGED << aux, compliant, raised, context, ref_number, exc, now, said, reads >>
    /\ noSync

\* the host calls run(): check_compliance, then the first say
run_start ==
    /\ pc = "init"
    /\ entry' = "run"
    /\ pc' = IF ~check_compliance THEN "say_cannot_proceed" ELSE "say_compliance_warning"
    /\ UNCHANGED << aux, compliant, raised, context, ref_number, exc, now, said, reads >>
    /\ noSync

\* line 50: say("This call cannot proceed ..."), then return
say_cannot_proceed ==
    /\ pc = "say_cannot_proceed"
    /\ \/ Spoke("cannot_proceed") /\ pc' = "returned"
       \/ SayRaised("cannot_proceed") /\ run_except
    /\ noData /\ noSync /\ UNCHANGED reads

\* line 63: the exception run()'s handler binds to e: the one of the say that
\* raised last (an exception is named by the say that raised it)
caught == said[Len(said)].u

\* faulty variant: the handler does not raise again, run() returns
say_technical_issue_swallows ==
    /\ pc = "say_technical_issue"
    /\ \/ Spoke("technical_issue")
       \/ SayRaised("technical_issue")
    /\ pc' = "returned"
    /\ UNCHANGED << aux, compliant, raised, context, ref_number, exc, now, entry, reads >>
    /\ noSync

\* line 65: say(ai_technical_issue_disclaimer), then raise (line 66); if the
\* say raises, its exception leaves run() instead
say_technical_issue ==
    /\ pc = "say_technical_issue"
    /\ LET e == caught
       IN  \/ Spoke("technical_issue") /\ raised' = Some(e)
           \/ SayRaised("technical_issue") /\ raised' = Some("technical_issue")
    /\ pc' = "raised"
    /\ UNCHANGED << aux, compliant, context, ref_number, exc, now, entry, reads >>
    /\ noSync

\* line 70: say(ai_compliance_warning); start_conversation has no handler
say_compliance_warning ==
    /\ pc = "say_compliance_warning"
    /\ \/ Spoke("compliance_warning") /\ pc' = "say_greeting"
       \/ SayRaised("compliance_warning") /\ run_except
    /\ noData /\ noSync /\ UNCHANGED reads

\* line 71: say("Hello, ..."); then verify_identity starts: line 85 arms and
\* line 86 starts the prompt
say_greeting ==
    /\ pc = "say_greeting"
    /\ \/ /\ Spoke("greeting")
          /\ arm
          /\ pc' = "say_ask_last4"
       \/ /\ SayRaised("greeting")
          /\ run_except
          /\ noSync
    /\ noData /\ UNCHANGED reads

----------------------------------------------------------------------------
(* verify_identity(), lines 82-143 *)

\* verify_identity returns or raises: the history of its inputs ends
verify_identity_ends == reads' = << >>

\* line 86: the prompt for the last 4 digits, outside the try of line 105
say_ask_last4 ==
    /\ pc = "say_ask_last4"
    /\ \/ Spoke("ask_last4") /\ pc' = wait_loop_next(waiting_for_input) /\ reads' = reads
       \/ SayRaised("ask_last4") /\ run_except /\ verify_identity_ends
    /\ noData /\ noSync

\* lines 91-93: one sleep(1) of the wait loop completes
sleep_poll ==
    /\ pc = "sleep_poll"
    /\ pc' = wait_loop_next(waiting_for_input)
    /\ waited' = IF waiting_for_input THEN (waited + 1) % (MaxPolls + 1) ELSE 0
    /\ UNCHANGED << waiting_for_input, captured_input, firstEvent, nEvents >>
    /\ noData /\ UNCHANGED << said, reads >>

\* faulty variant: verified is set and customer_info is left empty
verified_update_no_info(account_last4) ==
    [ verified |-> TRUE,
      customer_info |-> EmptyDict,
      account_last4 |-> account_last4 ]

\* faulty variant: the customer is recorded and verified is left false
verified_update_not_verified(account_last4) ==
    [ verified |-> FALSE,
      customer_info |-> [ account |-> << "X", "X", "X", "X" >> \o account_last4,
                          amount |-> "$1,234.56",
                          due_date |-> "2025-06-30" ],
      account_last4 |-> account_last4 ]

\* lines 121-131: self.context.update({...}) of a verified caller
verified_update(account_last4) ==
    [ verified |-> TRUE,
      customer_info |-> [ account |-> << "X", "X", "X", "X" >> \o account_last4,
                          amount |-> "$1,234.56",
                          due_date |-> "2025-06-30" ],
      account_last4 |-> account_last4 ]

\* faulty variant: a mismatch leaves the digits it compared in the context
validate_keeps_mismatch(user_input, ctx) ==
    IF user_input = None
    THEN [ next |-> "say_verify_error", ctx |-> ctx ]
    ELSE LET account_last4 == extract_digits(user_input[1])
         IN  IF ~is_four_digits(account_last4)
             THEN [ next |-> "say_exactly_4_digits", ctx |-> ctx ]
             ELSE IF ~matches_records(account_last4)
             THEN [ next |-> "say_no_match",
                    ctx |-> Update(ctx, [ account_last4 |-> account_last4 ]) ]
             ELSE [ next |-> "say_thanks_verified",
                    ctx |-> Update(ctx, verified_update(account_last4)) ]

\* lines 102-133: what the attempt decides for the input it read: the say it
\* starts next and the context it leaves
validate(user_input, ctx) ==
    IF user_input = None
    THEN [ next |-> "say_verify_error", ctx |-> ctx ]  \* extract_digits(None) raises
    ELSE LET account_last4 == extract_digits(user_input[1])
         IN  IF ~is_four_digits(account_last4)
             THEN [ next |-> "say_exactly_4_digits", ctx |-> ctx ]
             ELSE IF ~matches_records(account_last4)
             THEN [ next |-> "say_no_match", ctx |-> ctx ]
             ELSE [ next |-> "say_thanks_verified",
                    ctx |-> Update(ctx, verified_update(account_last4)) ]

\* line 95: sleep(3) completes; line 102 reads captured_input; lines 105-133
sleep_settle ==
    /\ pc = "sleep_settle"
    /\ LET r == validate(captured_input, context)
       IN  pc' = r.next /\ context' = r.ctx
    /\ reads' = Append(reads, captured_input)
    /\ UNCHANGED << aux, compliant, raised, ref_number, exc, now, entry, said >>
    /\ noSync

\* the `continue` of lines 112 and 118: line 85 arms, line 86 prompts again
next_attempt ==
    /\ Len(reads) < MaxAttempts
    /\ arm
    /\ pc' = "say_ask_last4"

\* line 109: say("Please provide exactly 4 digits ..."), then continue
say_exactly_4_digits ==
    /\ pc = "say_exactly_4_digits"
    /\ \/ Spoke("exactly_4_digits") /\ next_attempt
       \/ SayRaised("exactly_4_digits") /\ pc' = "say_verify_error" /\ noSync
    /\ noData /\ UNCHANGED reads

\* line 115: say("... doesn't match our records ..."), then continue
say_no_match ==
    /\ pc = "say_no_match"
    /\ \/ Spoke("no_match") /\ next_attempt
       \/ SayRaised("no_match") /\ pc' = "say_verify_error" /\ noSync
    /\ noData /\ UNCHANGED reads

\* faulty variant: the test of verified is left out
discuss_payment_first_unguarded(ctx) == "say_empathy"

\* faulty variant: the payment discussion is passed over
discuss_payment_first_skipped(ctx) == "say_confirm_details"

\* line 153: discuss_payment starts
discuss_payment_first(ctx) ==
    IF ~ctx.verified THEN "say_verify_first" ELSE "say_empathy"

\* line 133: say("Thank you for verifying ..."), return True; run() goes on
\* to discuss_payment (line 60)
say_thanks_verified ==
    /\ pc = "say_thanks_verified"
    /\ \/ Spoke("thanks_verified") /\ pc' = discuss_payment_first(context)
          /\ verify_identity_ends
       \/ SayRaised("thanks_verified") /\ pc' = "say_verify_error" /\ reads' = reads
    /\ noData /\ noSync

\* lines 138-143: say("I encountered an error ..."), return False; run()
\* returns (line 58)
say_verify_error ==
    /\ pc = "say_verify_error"
    /\ \/ Spoke("verify_error") /\ pc' = "returned"
       \/ SayRaised("verify_error") /\ run_except
    /\ verify_identity_ends
    /\ noData /\ noSync

----------------------------------------------------------------------------
(* discuss_payment(), lines 151-202 *)

\* the host calls discuss_payment() itself, on the workflow as constructed
call_discuss_payment ==
    /\ pc = "init"
    /\ entry' = "discuss_payment"
    /\ pc' = discuss_payment_first(context)
    /\ UNCHANGED << aux, compliant, raised, context, ref_number, exc, now, said, reads >>
    /\ noSync

\* discuss_payment returns (its value is not used by run(), lines 60-61):
\* run() goes on to handle_resolution, whose first await is the say of line 208
discuss_payment_returns ==
    pc' = IF entry = "run" THEN "say_confirm_details" ELSE "dp_returned"

\* an exception leaves discuss_payment
discuss_payment_raises ==
    IF entry = "run" THEN run_except ELSE pc' = "dp_raised"

\* line 154: say("... I'll need to verify your identity ..."), return False
say_verify_first ==
    /\ pc = "say_verify_first"
    /\ \/ Spoke("verify_first") /\ discuss_payment_returns
       \/ SayRaised("verify_first") /\ discuss_payment_raises
    /\ noData /\ noSync /\ UNCHANGED reads

\* line 162: say("I understand that managing finances ...")
say_empathy ==
    /\ pc = "say_empathy"
    /\ \/ Spoke("empathy") /\ pc' = "say_options"
       \/ SayRaised("empathy") /\ pc' = "say_payment_apology"
    /\ noData /\ noSync /\ UNCHANGED reads

\* line 168: say("You have a few options ..."); line 177 arms; line 178 sleeps
say_options ==
    /\ pc = "say_options"
    /\ \/ Spoke("options") /\ arm /\ pc' = "sleep_payment"
       \/ SayRaised("options") /\ pc' = "say_payment_apology" /\ noSync
    /\ noData /\ UNCHANGED reads

\* lines 182-192: the payment plan; t1 and t2 are the two readings of utcnow()
payment_plan(t1, t2) ==
    [ amount |-> "$250",
      start_date |-> strftime_BdY(plus_days(t1, 7)),
      installments |-> 5,
      next_payment_amount |-> "$50",
      next_payment_date |-> strftime_BdY(plus_days(t2, 7)) ]

\* line 178: sleep(2) completes; lines 182-194 set the plan and return True
sleep_payment ==
    /\ pc = "sleep_payment"
    /\ \E t1 \in ClockAfter(now) : \E t2 \in ClockAfter(t1) :
          /\ context' = Update(context, [ payment_plan |-> payment_plan(t1, t2) ])
          /\ now' = t2
    /\ discuss_payment_returns
    /\ UNCHANGED << aux, compliant, raised, ref_number, exc, entry, said, reads >>
    /\ noSync

\* lines 196-202: say("I apologize, but I'm having trouble accessing ..."),
\* return False
say_payment_apology ==
    /\ pc = "say_payment_apology"
    /\ \/ Spoke("payment_apology") /\ discuss_payment_returns
       \/ SayRaised("payment_apology") /\ discuss_payment_raises
    /\ noData /\ noSync /\ UNCHANGED reads

----------------------------------------------------------------------------
(* handle_resolution(), lines 204-277 *)

\* line 264: the handler binds the exception of the failed say(u) to e and
\* starts the transfer message of line 266
resolution_except(u) ==
    /\ exc' = Some(u)
    /\ pc' = "say_transfer"

\* line 211: if self.context.get("payment_plan")
has_payment_plan(ctx) == "payment_plan" \in DOMAIN ctx

\* line 232: ref_number from a reading of the clock, then the say of line 233
make_reference ==
    /\ \E t \in ClockAfter(now) :
          /\ ref_number' = Some(make_ref_number(t))
          /\ now' = t
    /\ pc' = "say_reference"

\* line 208: say("Let me confirm the details we've discussed:")
say_confirm_details ==
    /\ pc = "say_confirm_details"
    /\ \/ /\ Spoke("confirm_details")
          /\ pc' = IF has_payment_plan(context) THEN "say_plan_summary" ELSE "say_processing"
          /\ exc' = exc
       \/ SayRaised("confirm_details") /\ resolution_except("confirm_details")
    /\ UNCHANGED << aux, compliant, raised, context, ref_number, now, entry, reads >>
    /\ noSync

\* line 220: say(summary)
say_plan_summary ==
    /\ pc = "say_plan_summary"
    /\ \/ Spoke("plan_summary") /\ make_reference /\ exc' = exc
       \/ /\ SayRaised("plan_summary") /\ resolution_except("plan_summary")
          /\ UNCHANGED << ref_number, now >>
    /\ UNCHANGED << aux, compliant, raised, context, entry, reads >>
    /\ noSync

\* line 222: say("I'll process your payment now ...")
say_processing ==
    /\ pc = "say_processing"
    /\ \/ Spoke("processing") /\ pc' = "sleep_processing" /\ exc' = exc
       \/ SayRaised("processing") /\ resolution_except("processing")
    /\ UNCHANGED << aux, compliant, raised, context, ref_number, now, entry, reads >>
    /\ noSync

\* line 226: sleep(2) completes
sleep_processing ==
    /\ pc = "sleep_processing"
    /\ pc' = "say_processed"
    /\ noData /\ noSync /\ UNCHANGED << said, reads >>

\* line 227: say("Thank you, your payment has been processed successfully.")
say_processed ==
    /\ pc = "say_processed"
    /\ \/ Spoke("processed") /\ make_reference /\ exc' = exc
       \/ /\ SayRaised("processed") /\ resolution_except("processed")
          /\ UNCHANGED << ref_number, now >>
    /\ UNCHANGED << aux, compliant, raised, context, entry, reads >>
    /\ noSync

\* line 233: say("Your reference number is ...")
say_reference ==
    /\ pc = "say_reference"
    /\ \/ Spoke("reference") /\ pc' = "say_anything_else" /\ exc' = exc
       \/ SayRaised("reference") /\ resolution_except("reference")
    /\ UNCHANGED << aux, compliant, raised, context, ref_number, now, entry, reads >>
    /\ noSync

\* line 239: say("Is there anything else ..."); line 244 arms; line 245 sleeps
say_anything_else ==
    /\ pc = "say_anything_else"
    /\ \/ Spoke("anything_else") /\ arm /\ pc' = "sleep_response" /\ exc' = exc
       \/ SayRaised("anything_else") /\ resolution_except("anything_else") /\ noSync
    /\ UNCHANGED << aux, compliant, raised, context, ref_number, now, entry, reads >>

\* faulty variant: the sleep is a wait for the caller's answer, without end
sleep_response_waits ==
    /\ pc = "sleep_response"
    /\ pc' = IF waiting_for_input THEN "sleep_response" ELSE "say_goodbye"
    /\ noData /\ noSync /\ UNCHANGED << said, reads >>

\* line 245: sleep(2) completes
sleep_response ==
    /\ pc = "sleep_response"
    /\ pc' = "say_goodbye"
    /\ noData /\ noSync /\ UNCHANGED << said, reads >>

\* faulty variant: the call's end is not stamped
success_update_no_end(ref, t) ==
    [ resolution |-> "success",
      reference_number |-> ref ]

\* lines 253-259: self.context.update({...}) of a resolved call
success_update(ref, t) ==
    [ resolution |-> "success",
      reference_number |-> ref,
      call_end_time |-> isoformat(t) ]

\* lines 271-277: self.context.update({...}) of a failed resolution
error_update(e, t) ==
    [ resolution |-> "error",
      error |-> e,
      call_end_time |-> isoformat(t) ]

\* line 248: say("Thank you for your time today ..."); lines 253-262; run()
\* returns after handle_resolution
say_goodbye ==
    /\ pc = "say_goodbye"
    /\ \/ /\ Spoke("goodbye")
          /\ \E t \in ClockAfter(now) :
                /\ context' = Update(context, success_update(ref_number[1], t))
                /\ now' = t
          /\ pc' = "returned"
          /\ exc' = exc
       \/ /\ SayRaised("goodbye") /\ resolution_except("goodbye")
          /\ UNCHANGED << context, now >>
    /\ UNCHANGED << aux, compliant, raised, ref_number, entry, reads >>
    /\ noSync

\* line 266: say("I apologize, ... transfer you to a representative ...");
\* lines 271-277; if the say raises, the exception leaves the handler for run()
say_transfer ==
    /\ pc = "say_transfer"
    /\ \/ /\ Spoke("transfer")
          /\ \E t \in ClockAfter(now) :
                /\ context' = Update(context, error_update(exc[1], t))
                /\ now' = t
          /\ pc' = "returned"
       \/ /\ SayRaised("transfer") /\ run_except
          /\ UNCHANGED << context, now >>
    /\ UNCHANGED << aux, compliant, raised, ref_number, exc, entry, reads >>
    /\ noSync

----------------------------------------------------------------------------
(* The event callbacks, lines 279-294 *)

\* faulty variant: last write wins, the flag is not tested
on_user_input_last_wins(transcript) ==
    /\ captured_input' = Some(transcript)
    /\ waiting_for_input' = FALSE

\* on_user_input(event), lines 279-283, with event.transcript = transcript
on_user_input(transcript) ==
    IF waiting_for_input
    THEN /\ captured_input' = Some(transcript)
         /\ waiting_for_input' = FALSE
    ELSE UNCHANGED << captured_input, waiting_for_input >>

\* on_conversation_item_added(event), lines 285-294, with event.item = msg;
\* the test of msg.role is commented out and the captured text is "1234"
on_conversation_item_added(msg) ==
    IF waiting_for_input
    THEN /\ captured_input' = Some(<< "1", "2", "3", "4" >>)
         /\ waiting_for_input' = FALSE
    ELSE UNCHANGED << captured_input, waiting_for_input >>

\* the history of the events of this arm
delivered(ev) ==
    /\ firstEvent' = IF nEvents = 0 THEN Some(ev) ELSE firstEvent
    /\ nEvents' = nEvents + 1

\* the session emits user_input_transcribed
user_input_transcribed ==
    /\ nEvents < MaxEvents
    /\ \E t \in Texts :
          /\ on_user_input(t)
          /\ delivered(TranscribedEvent(t))
    /\ UNCHANGED << pc, waited, said, reads >>
    /\ noData

\* the session emits conversation_item_added
conversation_item_added ==
    /\ nEvents < MaxEvents
    /\ \E r \in Roles : \E t \in ItemTexts :
          /\ on_conversation_item_added(ItemEvent(r, t))
          /\ delivered(ItemEvent(r, t))
    /\ UNCHANGED << pc, waited, said, reads >>
    /\ noData

----------------------------------------------------------------------------
(* The steps of the coroutine, the steps of the session, the specification *)

Workflow ==
    \/ run_start
    \/ say_cannot_proceed
    \/ say_technical_issue
    \/ say_compliance_warning
    \/ say_greeting
    \/ say_ask_last4
    \/ sleep_poll
    \/ sleep_settle
    \/ say_exactly_4_digits
    \/ say_no_match
    \/ say_thanks_verified
    \/ say_verify_error
    \/ call_discuss_payment
    \/ say_verify_first
    \/ say_empathy
    \/ say_options
    \/ sleep_payment
    \/ say_payment_apology
    \/ say_confirm_details
    \/ say_plan_summary
    \/ say_processing
    \/ sleep_processing
    \/ say_processed
    \/ say_reference
    \/ say_anything_else
    \/ sleep_response
    \/ say_goodbye
    \/ say_transfer

Session ==
    \/ user_input_transcribed
    \/ conversation_item_added

Next == Workflow \/ Session

Spec == Init /\ [][Next]_vars

\* the event loop resumes the coroutine whenever its await has completed;
\* nothing obliges the caller to speak
FairSpec == Spec /\ WF_vars(Workflow)

----------------------------------------------------------------------------
(* extract_digits(), lines 75-80, called on its own *)

call_extract_digits ==
    /\ \E text \in ExtractInputs :
          call' = Some([ f |-> "extract_digits", arg |-> text,
                         result |-> extract_digits(text) ])
    /\ UNCHANGED << workflow_vars, issued, workflows, heap, actor >>
    /\ UNCHANGED << agent_pc, has_history, agent_now, resolution_details, agent_said,
                    agent_log, transcripts >>

ExtractNext == call_extract_digits

ExtractSpec == Init /\ [][ExtractNext]_vars

----------------------------------------------------------------------------
(* The reference numbers of several resolutions, line 232 *)

\* a resolution reaches line 232 when the clock reads t: its reference number
resolution_at ==
    /\ Cardinality(issued) < MaxResolutions
    /\ \E t \in ResolutionClock :
          issued' = issued \cup { [ t |-> t, ref |-> make_ref_number(t) ] }
    /\ UNCHANGED << workflow_vars, call, workflows, heap, actor >>
    /\ UNCHANGED << agent_pc, has_history, agent_now, resolution_details, agent_said,
                    agent_log, transcripts >>

ReferenceNext == resolution_at

ReferenceSpec == Init /\ [][ReferenceNext]_vars

----------------------------------------------------------------------------
(* Two workflows side by side.  The steps of a workflow w are those of the
   call above that write an attribute of the object or its context, in the
   order run() takes them; self is w, and self.context[...] is written
   through the reference self.context. *)

\* self.context.update(upd) and self.context[key] = value
write_context(w, upd) ==
    heap' = [ heap EXCEPT ![workflows[w].context] = Update(@, upd) ]

\* lines 85, 177, 244: self.waiting_for_input = True
arm_of(w) ==
    /\ workflows[w].at \in { "init", "verified", "planned" }
    /\ workflows' = [ workflows EXCEPT ![w].waiting_for_input = TRUE,
                                       ![w].at = CASE @ = "init" -> "waiting"
                                                   [] @ = "verified" -> "planning"
                                                   [] @ = "planned" -> "closing" ]
    /\ UNCHANGED heap

\* lines 102-131: verify_identity reads self.captured_input and validates it
read_of(w) ==
    /\ workflows[w].at = "waiting"
    /\ ~workflows[w].waiting_for_input
    /\ LET r == validate(workflows[w].captured_input, heap[workflows[w].context])
       IN  /\ heap' = [ heap EXCEPT ![workflows[w].context] = r.ctx ]
           /\ workflows' = [ workflows EXCEPT ![w].at =
                                IF r.next = "say_thanks_verified" THEN "verified"
                                ELSE "init" ]

\* lines 182-192: discuss_payment writes the payment plan
plan_of(w) ==
    /\ workflows[w].at = "planning"
    /\ \E t \in ClockAfter(0) :
          write_context(w, [ payment_plan |-> payment_plan(t, t) ])
    /\ workflows' = [ workflows EXCEPT ![w].at = "planned" ]

\* lines 253-259 and 271-277: handle_resolution records the resolution
resolve_of(w) ==
    /\ workflows[w].at = "closing"
    /\ \E t \in ClockAfter(0) :
          \/ write_context(w, success_update(make_ref_number(t), t))
          \/ write_context(w, error_update("goodbye", t))
    /\ workflows' = [ workflows EXCEPT ![w].at = "ended" ]

\* lines 279-283: on_user_input of the object w
on_user_input_of(w, transcript) ==
    /\ workflows' =
          IF workflows[w].waiting_for_input
          THEN [ workflows EXCEPT ![w].captured_input = Some(transcript),
                                  ![w].waiting_for_input = FALSE ]
          ELSE workflows
    /\ UNCHANGED heap

\* lines 285-294: on_conversation_item_added of the object w
on_conversation_item_added_of(w, msg) ==
    /\ workflows' =
          IF workflows[w].waiting_for_input
          THEN [ workflows EXCEPT ![w].captured_input = Some(<< "1", "2", "3", "4" >>),
                                  ![w].waiting_for_input = FALSE ]
          ELSE workflows
    /\ UNCHANGED heap

\* the session of w emits an event to the callbacks of w
event_of(w) ==
    \/ \E t \in Texts : on_user_input_of(w, t)
    \/ \E r \in Roles : \E t \in ItemTexts :
          on_conversation_item_added_of(w, ItemEvent(r, t))

\* one step of the workflow w or of its session
step_of(w) ==
    /\ \/ arm_of(w)
       \/ read_of(w)
       \/ plan_of(w)
       \/ resolve_of(w)
       \/ event_of(w)
    /\ actor' = Some(w)
    /\ UNCHANGED << workflow_vars, call, issued >>
    /\ UNCHANGED << agent_pc, has_history, agent_now, resolution_details, agent_said,
                    agent_log, transcripts >>

SideBySideNext == \E w \in Instances : step_of(w)

SideBySideSpec == Init /\ [][SideBySideNext]_vars

----------------------------------------------------------------------------
(* DebtCollectionAgent._handle_resolution and _save_transcript, src/main.py,
   lines 256-303.  _save_transcript has no await: it runs to its end inside
   the step that calls it. *)

\* what can go wrong in _save_transcript: session.history.to_dict() raises,
\* open() raises, json.dump() raises after the file was created, or nothing
SaveFaults == { "to_dict", "open", "dump", "none" }

\* a record given to the logger
LogRecord(level, msg) == [ level |-> level, msg |-> msg ]

\* line 289: transcripts_dir / f"transcript_{timestamp}.json"
transcript_path(t) == << "transcript_" >> \o strftime_Ymd_HMS(t) \o << ".json" >>

\* faulty variant: no try/except around the body, a failure leaves the function
save_transcript_unguarded(history, fault, t, log, files) ==
    IF ~history
    THEN [ raises |-> FALSE, files |-> files,
           log |-> Append(log, LogRecord("warning", "Session has no history attribute")) ]
    ELSE CASE fault \in { "to_dict", "open" } ->
                [ raises |-> TRUE, files |-> files, log |-> log ]
           [] fault = "dump" ->
                [ raises |-> TRUE, log |-> log,
                  files |-> Update(files, [ p \in { transcript_path(t) } |-> "partial" ]) ]
           [] fault = "none" ->
                [ raises |-> FALSE,
                  files |-> Update(files, [ p \in { transcript_path(t) } |-> "complete" ]),
                  log |-> Append(log, LogRecord("info", "Transcript saved")) ]

\* _save_transcript(session), lines 285-303, the clock reading t at line 288:
\* whether an exception leaves it, the files and the log it leaves
save_transcript(history, fault, t, log, files) ==
    IF ~history
    THEN [ raises |-> FALSE, files |-> files,
           log |-> Append(log, LogRecord("warning", "Session has no history attribute")) ]
    ELSE CASE fault \in { "to_dict", "open" } ->
                [ raises |-> FALSE, files |-> files,
                  log |-> Append(log, LogRecord("error", "Failed to save transcript")) ]
           [] fault = "dump" ->
                [ raises |-> FALSE,
                  files |-> Update(files, [ p \in { transcript_path(t) } |-> "partial" ]),
                  log |-> Append(log, LogRecord("error", "Failed to save transcript")) ]
           [] fault = "none" ->
                [ raises |-> FALSE,
                  files |-> Update(files, [ p \in { transcript_path(t) } |-> "complete" ]),
                  log |-> Append(log, LogRecord("info", "Transcript saved")) ]

AgentSpoke(u) == agent_said' = Append(agent_said, [ u |-> u, ok |-> TRUE ])
AgentSayRaised(u) == agent_said' = Append(agent_said, [ u |-> u, ok |-> FALSE ])

\* lines 279-281: the handler logs the exception and starts its say
agent_except(log) ==
    /\ agent_log' = Append(log, LogRecord("error", "Resolution handling failed"))
    /\ agent_pc' = "say_finalizing_error"

\* the context _verify_identity returns for a verified caller (lines 189-200);
\* _start_conversation goes on to _handle_resolution with no other (line 165)
verified_agent_context ==
    [ verified |-> TRUE,
      customer_info |-> [ account |-> << "X", "X", "X", "X", "1", "2", "3", "4" >>,
                          amount |-> "$1,234.56" ],
      account_last4 |-> << "1", "2", "3", "4" >> ]

\* lines 259-270: resolution_details, the clock reading t at line 263
make_resolution_details(ctx, t) ==
    [ status |-> "completed",
      customer_verified |-> ctx.verified,
      account |-> ctx.customer_info.account,
      timestamp |-> isoformat(t),
      resolution |-> "payment_plan_created",
      payment_plan |-> [ duration_months |-> 3, amount |-> ctx.customer_info.amount ] ]

\* _start_conversation calls _handle_resolution (line 169): lines 259-273
call_handle_resolution ==
    /\ agent_pc = "init"
    /\ has_history' \in BOOLEAN
    /\ \E t \in ClockAfter(agent_now) :
          /\ resolution_details' = Some(make_resolution_details(verified_agent_context, t))
          /\ agent_now' = t
    /\ agent_pc' = "say_response"
    /\ UNCHANGED << agent_said, agent_log, transcripts >>
    /\ UNCHANGED << workflow_vars, call, issued, workflows, heap, actor >>

\* line 273: say(response)
agent_say_response ==
    /\ agent_pc = "say_response"
    /\ \/ AgentSpoke("response") /\ agent_pc' = "sleep_resolution" /\ agent_log' = agent_log
       \/ AgentSayRaised("response") /\ agent_except(agent_log)
    /\ UNCHANGED << has_history, agent_now, resolution_details, transcripts >>
    /\ UNCHANGED << workflow_vars, call, issued, workflows, heap, actor >>

\* line 274: sleep(1.5) completes; line 276: _save_transcript; then the say of
\* line 277 starts
agent_sleep_resolution ==
    /\ agent_pc = "sleep_resolution"
    /\ \E fault \in SaveFaults : \E t \in ClockAfter(agent_now) :
          LET r == save_transcript(has_history, fault, t, agent_log, transcripts)
          IN  /\ transcripts' = r.files
              /\ agent_now' = t
              /\ IF r.raises
                 THEN agent_except(r.log)
                 ELSE agent_log' = r.log /\ agent_pc' = "say_thank_you"
    /\ UNCHANGED << has_history, resolution_details, agent_said >>
    /\ UNCHANGED << workflow_vars, call, issued, workflows, heap, actor >>

\* line 277: say("Thank you for calling Riverline Bank. Have a great day!")
agent_say_thank_you ==
    /\ agent_pc = "say_thank_you"
    /\ \/ AgentSpoke("thank_you") /\ agent_pc' = "returned" /\ agent_log' = agent_log
       \/ AgentSayRaised("thank_you") /\ agent_except(agent_log)
    /\ UNCHANGED << has_history, agent_now, resolution_details, transcripts >>
    /\ UNCHANGED << workflow_vars, call, issued, workflows, heap, actor >>

\* line 281: say("I encountered an error while finalizing your request.");
\* line 282: _save_transcript; line 283: raise.  When the say raises, its
\* exception leaves the handler at once.
agent_say_finalizing_error ==
    /\ agent_pc = "say_finalizing_error"
    /\ \/ /\ AgentSpoke("finalizing_error")
          /\ \E fault \in SaveFaults : \E t \in ClockAfter(agent_now) :
                LET r == save_transcript(has_history, fault, t, agent_log, transcripts)
                IN  transcripts' = r.files /\ agent_log' = r.log /\ agent_now' = t
       \/ /\ AgentSayRaised("finalizing_error")
          /\ UNCHANGED << agent_log, transcripts, agent_now >>
    /\ agent_pc' = "raised"
    /\ UNCHANGED << has_history, resolution_details >>
    /\ UNCHANGED << workflow_vars, call, issued, workflows, heap, actor >>

AgentNext ==
    \/ call_handle_resolution
    \/ agent_say_response
    \/ agent_sleep_resolution
    \/ agent_say_thank_you
    \/ agent_say_finalizing_error

AgentSpec == Init /\ [][AgentNext]_vars

----------------------------------------------------------------------------
(* Vocabulary of the properties *)

\* the utterances spoken so far, in order (the says that completed)
Spoken ==
    LET done == SelectSeq(said, LAMBDA e : e.ok)
    IN  [ i \in 1..Len(done) |-> done[i].u ]

\* how many times utterance u has been spoken
TimesSpoken(u) == Cardinality({ i \in 1..Len(said) : said[i].u = u /\ said[i].ok })

\* the digit characters of a text, in their order of appearance
RECURSIVE DigitsIn(_)
DigitsIn(t) ==
    IF t = << >> THEN << >>
    ELSE (IF Head(t) \in Digits THEN << Head(t) >> ELSE << >>) \o DigitsIn(Tail(t))

\* the last-four-digits rule, stated on its own
LastFourRule(t) ==
    LET d == DigitsIn(t)
        n == Len(d)
    IN  IF n >= 4 THEN << d[n - 3], d[n - 2], d[n - 1], d[n] >> ELSE d

\* a captured input that yields, by the rule, exactly the digits 1234
YieldsExpected(input) ==
    input # None /\ LastFourRule(input[1]) = << "1", "2", "3", "4" >>

\* a step that delivers an event to one of the two callbacks
EventStep == nEvents' = nEvents + 1

\* run() has ended
RunEnded == pc \in { "returned", "raised" }

\* the coroutine is inside the loop of verify_identity, after an input was read
AfterRead ==
    pc \in { "say_exactly_4_digits", "say_no_match", "say_thanks_verified" }

----------------------------------------------------------------------------
(* C1 *)

\* C1: first write wins. An event delivered while the synchronizer is armed
\* is the first one since the arm, disarms it and sets captured_input (to the
\* event's text when it is a transcription); every later event before the
\* next arm leaves waiting_for_input and captured_input unchanged, so after
\* any event of the window the synchronizer is disarmed and the waiter reads
\* what the first event set.
C1_FirstWriteWins ==
    /\ [](nEvents >= 1 => ~waiting_for_input)
    /\ [][ EventStep =>
             IF waiting_for_input
             THEN /\ nEvents = 0
                  /\ ~waiting_for_input'
                  /\ captured_input' # None
                  /\ firstEvent'[1].chan = "transcribed"
                        => captured_input' = Some(firstEvent'[1].text)
             ELSE UNCHANGED << waiting_for_input, captured_input >> ]_vars

\* two events came after the first arm, the first the transcription "abc",
\* and the waiter is about to read "abc"
C1_Witness ==
    /\ pc = "sleep_settle"
    /\ reads = << >>
    /\ nEvents = 2
    /\ firstEvent = Some(TranscribedEvent(<< "a", "b", "c" >>))
    /\ captured_input = Some(<< "a", "b", "c" >>)

----------------------------------------------------------------------------
(* C2 *)

\* C2: role filter. An event that is not user-originated (a conversation item
\* of role agent or system) never changes waiting_for_input or
\* captured_input. (Only the first event after an arm can find the
\* synchronizer armed, so the statement is made of that event.)
C2_RoleFilter ==
    [][ (EventStep /\ nEvents = 0 /\ firstEvent'[1].role # "user")
            => UNCHANGED << waiting_for_input, captured_input >> ]_vars

----------------------------------------------------------------------------
(* C3 *)

\* C3: verified becomes true only in the step of verify_identity that reads a
\* captured input yielding, by the last-four-digits rule, the digits 1234;
\* and whenever verified is true the digits recorded for the call are 1234.
C3_VerifiedOnlyOnMatch ==
    /\ [](context.verified =>
            /\ "account_last4" \in DOMAIN context
            /\ context.account_last4 = << "1", "2", "3", "4" >>)
    /\ [][ (~context.verified /\ context'.verified) =>
             /\ pc = "sleep_settle"
             /\ YieldsExpected(captured_input)
             /\ reads' = Append(reads, captured_input) ]_vars

\* the caller said "no51234": five digits, of which the last four match
C3_Witness ==
    /\ pc = "say_thanks_verified"
    /\ context.verified
    /\ reads = << Some(<< "n", "o", "5", "1", "2", "3", "4" >>) >>

----------------------------------------------------------------------------
(* C4 *)

\* C4: timeout. Whenever verify_identity is in its wait loop with the
\* synchronizer armed, eventually an event arrives or the wait ends: it does
\* not stay in the loop forever when no event comes.
C4_WaitEnds ==
    (pc = "sleep_poll" /\ waiting_for_input)
        ~> (pc # "sleep_poll" \/ ~waiting_for_input)

----------------------------------------------------------------------------
(* C5 *)

\* C5: retry convergence. Of the inputs verify_identity has read, only the
\* last can yield 1234; after each read, verified holds exactly when that
\* input yields 1234, one prompt has been spoken per input read, and a
\* verified call has customer_info.account = "XXXX1234".
C5_RetryConvergence ==
    /\ \A i \in 1..Len(reads) : YieldsExpected(reads[i]) => i = Len(reads)
    /\ AfterRead =>
          /\ Len(reads) >= 1
          /\ context.verified <=> YieldsExpected(reads[Len(reads)])
          /\ (pc = "say_thanks_verified") <=> context.verified
          /\ TimesSpoken("ask_last4") = Len(reads)
    /\ context.verified =>
          context.customer_info.account = << "X", "X", "X", "X", "1", "2", "3", "4" >>

\* the inputs "abc", "12", "9999", "1234": success on the 4th, after 4 prompts
C5_Witness ==
    /\ pc = "say_thanks_verified"
    /\ reads = << Some(<< "a", "b", "c" >>), Some(<< "1", "2" >>),
                  Some(<< "9", "9", "9", "9" >>), Some(<< "1", "2", "3", "4" >>) >>
    /\ context.verified
    /\ context.customer_info.account = << "X", "X", "X", "X", "1", "2", "3", "4" >>
    /\ TimesSpoken("ask_last4") = 4
    /\ TimesSpoken("exactly_4_digits") = 2
    /\ TimesSpoken("no_match") = 1

----------------------------------------------------------------------------
(* C6 *)

\* C6: in every reachable state customer_info is non-empty if and only if
\* verified is true.
C6_CustomerInfoIffVerified ==
    (DOMAIN context.customer_info # {}) <=> context.verified

\* a verified call, with its customer record
C6_Witness ==
    /\ context.verified
    /\ DOMAIN context.customer_info = { "account", "amount", "due_date" }

----------------------------------------------------------------------------
(* C7 *)

\* C7: a payment plan is present only in a verified call; discuss_payment
\* called while verified is false starts the verification prompt and nothing
\* else, and ends without a payment plan, having spoken that prompt when it
\* returns.
C7_PlanRequiresVerified ==
    /\ has_payment_plan(context) => context.verified
    /\ entry = "discuss_payment" =>
          /\ ~has_payment_plan(context)
          /\ pc \in { "say_verify_first", "dp_returned", "dp_raised" }
          /\ pc = "dp_returned" => Spoken = << "verify_first" >>

\* discuss_payment was called on an unverified workflow and has returned
C7_Witness ==
    /\ pc = "dp_returned"
    /\ ~context.verified
    /\ Spoken = << "verify_first" >>
    /\ ~has_payment_plan(context)

----------------------------------------------------------------------------
(* C8 *)

\* the context records a resolution
ResolutionSet == "resolution" \in DOMAIN context

\* C8: after run() has returned or raised, resolution is success or error,
\* never left unset. (Stated for the calls that pass the compliance check,
\* the only ones the repository's check_compliance produces.)
C8_ResolutionNeverPending ==
    (compliant /\ RunEnded) =>
        (ResolutionSet /\ context.resolution \in { "success", "error" })

----------------------------------------------------------------------------
(* C9 *)

\* C9: resolution is set at most once, to success or error, in the step that
\* ends the call and together with call_end_time: once set, the context
\* never changes again and the coroutine takes no further step.
C9_ResolutionOnceAtEnd ==
    /\ [](ResolutionSet <=> "call_end_time" \in DOMAIN context)
    /\ [](ResolutionSet =>
            /\ context.resolution \in { "success", "error" }
            /\ pc = "returned")
    /\ [][ ResolutionSet => (context' = context /\ pc' = pc) ]_vars

\* a call resolved with success, its end stamped
C9_Witness ==
    /\ pc = "returned"
    /\ ResolutionSet
    /\ context.resolution = "success"
    /\ context.call_end_time = isoformat(now)

----------------------------------------------------------------------------
(* C10 *)

\* what holds of a declined call (check_compliance answered false) whatever
\* the session does: no phase runs, nothing is recorded, nothing is armed
DeclinedRunsNoPhase ==
    /\ pc \in { "say_cannot_proceed", "say_technical_issue", "returned", "raised" }
    /\ ~context.verified
    /\ ~has_payment_plan(context)
    /\ ~ResolutionSet
    /\ ~waiting_for_input
    /\ reads = << >>
    /\ \A i \in 1..Len(said) : said[i].u \in { "cannot_proceed", "technical_issue" }

\* C10 as stated: when check_compliance answers false, no verification,
\* payment or resolution phase runs, resolution is never success, and the
\* call ends after exactly one utterance, the "cannot proceed" message.
C10_DeclinedOneUtterance ==
    (~compliant /\ entry = "run") =>
        /\ DeclinedRunsNoPhase
        /\ RunEnded => Spoken = << "cannot_proceed" >>

\* C10, amended: when check_compliance answers false, no verification,
\* payment or resolution phase runs and resolution is never set; run()
\* returns exactly when the "cannot proceed" message was spoken, and then it
\* is the only utterance; when that say raises, run() attempts the
\* technical-issue message and raises, "cannot proceed" not having been
\* spoken.
C10_DeclinedShortCircuit ==
    (~compliant /\ entry = "run") =>
        /\ DeclinedRunsNoPhase
        /\ pc = "returned" => said = << [ u |-> "cannot_proceed", ok |-> TRUE ] >>
        /\ pc = "raised" =>
              /\ Len(said) = 2
              /\ said[1] = [ u |-> "cannot_proceed", ok |-> FALSE ]
              /\ said[2].u = "technical_issue"

\* a declined call that has ended after the one message
C10_Witness ==
    /\ ~compliant
    /\ pc = "returned"
    /\ Spoken = << "cannot_proceed" >>

----------------------------------------------------------------------------
(* C11 *)

\* the phase of run() an utterance belongs to: 1 the compliance check (its
\* refusal), 2 start_conversation, 3 verify_identity, 4 discuss_payment,
\* 5 handle_resolution, 6 the handler of run() (lines 63-66)
PhaseOfUtterance(u) ==
    CASE u = "cannot_proceed" -> 1
      [] u \in { "compliance_warning", "greeting" } -> 2
      [] u \in { "ask_last4", "exactly_4_digits", "no_match", "thanks_verified",
                 "verify_error" } -> 3
      [] u \in { "verify_first", "empathy", "options", "payment_apology" } -> 4
      [] u \in { "confirm_details", "plan_summary", "processing", "processed",
                 "reference", "anything_else", "goodbye", "transfer" } -> 5
      [] u = "technical_issue" -> 6

\* the phase the coroutine is suspended in (0: not started, 7: run() ended)
PhaseOfPc ==
    CASE pc = "init" -> 0
      [] pc = "say_cannot_proceed" -> 1
      [] pc \in { "say_compliance_warning", "say_greeting" } -> 2
      [] pc \in { "say_ask_last4", "sleep_poll", "sleep_settle",
                  "say_exactly_4_digits", "say_no_match", "say_thanks_verified",
                  "say_verify_error" } -> 3
      [] pc \in { "say_verify_first", "say_empathy", "say_options",
                  "sleep_payment", "say_payment_apology" } -> 4
      [] pc \in { "say_confirm_details", "say_plan_summary", "say_processing",
                  "sleep_processing", "say_processed", "say_reference",
                  "say_anything_else", "sleep_response", "say_goodbye",
                  "say_transfer" } -> 5
      [] pc = "say_technical_issue" -> 6
      [] OTHER -> 7

\* the say that ends phase p when it completes, the next phase starting after it
EndsPhase(e, p) ==
    /\ e.ok
    /\ e.u = CASE p = 2 -> "greeting"
               [] p = 3 -> "thanks_verified"
               [] p = 4 /\ has_payment_plan(context) -> "options"
               [] p = 4 /\ ~has_payment_plan(context) -> "payment_apology"
               [] OTHER -> "none"

\* C11: within one call of run() the phases come strictly in the order
\* compliance check, greeting, identity verification, payment discussion,
\* resolution. The utterances of the call never go back to an earlier phase,
\* a phase starts only right after the completed last utterance of the phase
\* before it (none is skipped), the greeting starts only when the compliance
\* check passed, and the coroutine is never in a phase earlier than that of
\* an utterance already attempted.
C11_PhaseOrder ==
    entry = "run" =>
        LET ph == [ i \in 1..Len(said) |-> PhaseOfUtterance(said[i].u) ]
        IN  /\ \A i \in 1..Len(said) : \A j \in i..Len(said) : ph[i] <= ph[j]
            /\ Len(said) >= 1 => ph[1] = IF compliant THEN 2 ELSE 1
            /\ \A i \in 1..(Len(said) - 1) :
                  (ph[i + 1] # ph[i] /\ ph[i + 1] <= 5) =>
                      /\ ph[i + 1] = ph[i] + 1
                      /\ ph[i] >= 2
                      /\ EndsPhase(said[i], ph[i])
            /\ Len(said) >= 1 => PhaseOfPc >= ph[Len(said)]
            /\ (PhaseOfPc \in 2..5 /\ Len(said) >= 1
                    /\ PhaseOfPc # ph[Len(said)]) =>
                  /\ PhaseOfPc = ph[Len(said)] + 1
                  /\ EndsPhase(said[Len(said)], ph[Len(said)])
            /\ Len(said) = 0 => PhaseOfPc \in { 1, 2 }

\* a call that went through all the phases and was resolved
C11_Witness ==
    /\ entry = "run"
    /\ pc = "returned"
    /\ ResolutionSet
    /\ context.resolution = "success"
    /\ { PhaseOfUtterance(said[i].u) : i \in 1..Len(said) } = 2..5

----------------------------------------------------------------------------
(* C12 *)

\* discuss_payment failed internally: its handler (lines 196-202) started the
\* apology
PaymentFailed == \E i \in 1..Len(said) : said[i].u = "payment_apology"

\* C12: when discuss_payment fails internally in a call of run(), the
\* resolution phase does not run (none of its utterances is attempted, the
\* coroutine is never in it) and resolution is never set to success.
C12_PaymentFailureNoSuccess ==
    (entry = "run" /\ PaymentFailed) =>
        /\ PhaseOfPc # 5
        /\ \A i \in 1..Len(said) : PhaseOfUtterance(said[i].u) # 5
        /\ ~(ResolutionSet /\ context.resolution = "success")

\* the same call, seen at its end: resolution was set to success
C12_SuccessAfterFailure ==
    /\ entry = "run"
    /\ PaymentFailed
    /\ pc = "returned"
    /\ ResolutionSet
    /\ context.resolution = "success"

----------------------------------------------------------------------------
(* C13 *)

\* an exception was raised inside handle_resolution's try and its handler
\* (lines 264-277) is over
ResolutionHandlerOver == exc # None /\ pc # "say_transfer"

\* C13: once handle_resolution's handler is over, the transfer message has
\* been attempted, resolution is error, the error message is the one of the
\* exception that was raised and call_end_time is stamped.
C13_ResolutionErrorRecorded ==
    ResolutionHandlerOver =>
        /\ \E i \in 1..Len(said) : said[i].u = "transfer"
        /\ ResolutionSet
        /\ context.resolution = "error"
        /\ "error" \in DOMAIN context
        /\ context.error = exc[1]
        /\ "call_end_time" \in DOMAIN context

----------------------------------------------------------------------------
(* C14 *)

\* the technical-issue apology has been attempted
ApologyAttempted == \E i \in 1..Len(said) : said[i].u = "technical_issue"

\* run() has raised after this history: its last say is the attempt of the
\* apology, and the say before it is the one whose exception reached the
\* handler
HandlerHistory ==
    /\ Len(said) >= 2
    /\ said[Len(said)].u = "technical_issue"
    /\ ~said[Len(said) - 1].ok
    /\ said[Len(said) - 1].u # "technical_issue"

\* C14 as stated: whenever an exception reaches run()'s handler, run()
\* attempts the technical-issue apology and then propagates that same error
\* to its caller; run() never returns normally after such an exception.
C14_SameErrorPropagated ==
    /\ [](pc = "raised" =>
            /\ HandlerHistory
            /\ raised = Some(said[Len(said) - 1].u))
    /\ [](ApologyAttempted => pc = "raised")
    /\ [][ pc = "say_technical_issue" => pc' \in { "say_technical_issue", "raised" } ]_vars

\* C14, amended: whenever an exception reaches run()'s handler, run()
\* attempts the technical-issue apology and then raises, and never returns
\* normally: it raises the exception that reached the handler when the
\* apology was spoken, and the exception of the apology's say when that say
\* raised.
C14_ErrorPropagated ==
    /\ [](pc = "raised" =>
            /\ HandlerHistory
            /\ raised = IF said[Len(said)].ok
                        THEN Some(said[Len(said) - 1].u)
                        ELSE Some("technical_issue"))
    /\ [](raised # None <=> pc = "raised")
    /\ [](ApologyAttempted => pc = "raised")
    /\ [][ pc = "say_technical_issue" => pc' \in { "say_technical_issue", "raised" } ]_vars

\* the greeting's say raised, the apology was spoken and run() raised the
\* greeting's exception
C14_Witness ==
    /\ pc = "raised"
    /\ said = << [ u |-> "compliance_warning", ok |-> TRUE ],
                 [ u |-> "greeting", ok |-> FALSE ],
                 [ u |-> "technical_issue", ok |-> TRUE ] >>
    /\ raised = Some("greeting")

----------------------------------------------------------------------------
(* C15 *)

\* the explanations and apologies of the failure paths (lines 50, 65, 140,
\* 198, 266)
Apologies ==
    { "cannot_proceed", "technical_issue", "verify_error", "payment_apology",
      "transfer" }

\* the says that mark a failure: one that raised, or the apology of an
\* aborted verification
FailureMarks ==
    { i \in 1..Len(said) : ~said[i].ok \/ said[i].u = "verify_error" }

\* the call is on a failure path: declined, or a say raised, or the
\* verification was aborted
Failed == ~compliant \/ FailureMarks # {}

\* the number of says attempted up to the failure
FailurePoint ==
    IF ~compliant THEN 0
    ELSE LET i == CHOOSE k \in FailureMarks : \A l \in FailureMarks : k <= l
         IN  IF said[i].ok THEN i - 1 ELSE i

\* the says attempted after the failure
AfterFailure == (FailurePoint + 1)..Len(said)

\* C15 as stated: every run that ends on a failure path has spoken an
\* explanation or apology after the failure and before it ends.
C15_NoSilentEnd ==
    (entry = "run" /\ RunEnded /\ Failed) =>
        \E j \in AfterFailure : said[j].ok /\ said[j].u \in Apologies

\* C15, amended: every run that ends on a failure path has attempted an
\* explanation or apology after the failure; it has spoken one unless every
\* say attempted after the failure raised, the last of them the
\* technical-issue apology, and then run() has raised.
C15_ApologyAttempted ==
    (entry = "run" /\ RunEnded /\ Failed) =>
        /\ \E j \in AfterFailure : said[j].u \in Apologies
        /\ \/ \E j \in AfterFailure : said[j].ok /\ said[j].u \in Apologies
           \/ /\ \A j \in AfterFailure : ~said[j].ok
              /\ said[Len(said)].u = "technical_issue"
              /\ pc = "raised"

\* the say of the reference number raised in the resolution phase, the
\* transfer message was spoken and run() returned
C15_Witness ==
    /\ entry = "run"
    /\ pc = "returned"
    /\ FailureMarks = { Len(said) - 1 }
    /\ said[Len(said) - 1] = [ u |-> "reference", ok |-> FALSE ]
    /\ said[Len(said)] = [ u |-> "transfer", ok |-> TRUE ]

----------------------------------------------------------------------------
(* C16 *)

\* C16: for every input text, extract_digits returns the last 4 of the digit
\* characters of the text, in their order of appearance, when the text has at
\* least 4 digits (the digits 1,2,3,4,9,9 give "3499"), and all of its digits
\* in order when it has fewer than 4 (the empty text when it has none).
C16_LastFourDigits ==
    call # None =>
        LET text == call[1].arg
            result == call[1].result
            d == DigitsIn(text)
        IN  /\ call[1].f = "extract_digits"
            /\ result = LastFourRule(text)
            /\ Len(d) >= 4 =>
                  /\ Len(result) = 4
                  /\ \A i \in 1..4 : result[i] = d[Len(d) - 4 + i]
            /\ Len(d) < 4 => result = d
            /\ (\A i \in 1..Len(text) : text[i] \notin Digits) => result = << >>
            /\ text = << "1", "2", "3", "4", "9", "9" >>
                  => result = << "3", "4", "9", "9" >>

\* extract_digits was called on "123499" and gave "3499"
C16_Witness ==
    /\ call # None
    /\ call[1].arg = << "1", "2", "3", "4", "9", "9" >>
    /\ call[1].result = << "3", "4", "9", "9" >>

----------------------------------------------------------------------------
(* C17 *)

\* the state of the workflow w the claim speaks of: its context (the dict its
\* attribute refers to), waiting_for_input and captured_input
StateOf(w) ==
    [ context |-> heap[workflows[w].context],
      waiting_for_input |-> workflows[w].waiting_for_input,
      captured_input |-> workflows[w].captured_input ]

\* C17: with two workflows running side by side, an event delivered to the
\* callbacks of one of them, or any step of it, never changes the context,
\* waiting_for_input or captured_input of the other.
C17_Isolation ==
    [][ \A w \in Instances : \A o \in Instances \ { w } :
            actor' = Some(w) => StateOf(o)' = StateOf(o) ]_vars

\* one call is verified and resolved while the other is still waiting for
\* its caller, its context as constructed
C17_Witness ==
    /\ actor = Some("call_1")
    /\ workflows["call_1"].at = "ended"
    /\ StateOf("call_1").context.verified
    /\ StateOf("call_1").context.resolution = "success"
    /\ workflows["call_2"].at = "waiting"
    /\ StateOf("call_2") = [ context |-> initial_context,
                             waiting_for_input |-> TRUE,
                             captured_input |-> None ]

----------------------------------------------------------------------------
(* C18 *)

\* a save of the transcript failed: its failure is in the log
SaveFailed ==
    \E i \in 1..Len(agent_log) : agent_log[i].msg = "Failed to save transcript"

\* C18: a failure while saving the transcript never aborts the call. The save
\* is always followed by the closing utterance, a failed save leaves nothing
\* but its record in the log, and _handle_resolution raises only after a say
\* of its own raised (the handler of lines 279-283 was entered for it), never
\* because of the save.
C18_SaveNeverAborts ==
    /\ [][ (agent_pc = "sleep_resolution" /\ agent_pc' # agent_pc) =>
             /\ agent_pc' = "say_thank_you"
             /\ Len(agent_log') = Len(agent_log) + 1
             /\ agent_said' = agent_said ]_vars
    /\ [](agent_pc \in { "say_finalizing_error", "raised" } =>
             \E i \in 1..Len(agent_said) :
                 ~agent_said[i].ok /\ agent_said[i].u \in { "response", "thank_you" })
    /\ [](agent_pc = "returned" =>
             agent_said = << [ u |-> "response", ok |-> TRUE ],
                             [ u |-> "thank_you", ok |-> TRUE ] >>)

\* open() raised in the save, nothing was written, and the call ended with
\* the closing utterance
C18_Witness ==
    /\ agent_pc = "returned"
    /\ has_history
    /\ SaveFailed
    /\ DOMAIN transcripts = {}
    /\ agent_said[Len(agent_said)] = [ u |-> "thank_you", ok |-> TRUE ]

----------------------------------------------------------------------------
(* C19 *)

\* the number a text of digit characters writes
RECURSIVE NumberOf(_)
NumberOf(ds) ==
    IF ds = << >> THEN 0
    ELSE 10 * NumberOf(SubSeq(ds, 1, Len(ds) - 1))
         + (CHOOSE n \in 0..9 : DigitChars[n + 1] = ds[Len(ds)])

\* the text ref is REF- followed by 14 digits that read, as YYYYMMDDHHMMSS,
\* the date and time of the clock reading t
IsReferenceOf(ref, t) ==
    /\ Len(ref) = 18
    /\ SubSeq(ref, 1, 4) = << "R", "E", "F", "-" >>
    /\ \A i \in 5..18 : ref[i] \in Digits
    /\ NumberOf(SubSeq(ref, 5, 8)) = Epoch.Y
    /\ NumberOf(SubSeq(ref, 9, 10)) = Epoch.M
    /\ (NumberOf(SubSeq(ref, 11, 12)) - Epoch.D) * SecondsPerDay
          + NumberOf(SubSeq(ref, 13, 14)) * 3600
          + NumberOf(SubSeq(ref, 15, 16)) * 60
          + NumberOf(SubSeq(ref, 17, 18)) = t
    /\ NumberOf(SubSeq(ref, 13, 14)) < 24
    /\ NumberOf(SubSeq(ref, 15, 16)) < 60
    /\ NumberOf(SubSeq(ref, 17, 18)) < 60

\* C19: the reference number of a resolution is REF- followed by the 14-digit
\* YYYYMMDDHHMMSS rendering of the clock at that step, and two resolutions
\* completed at different seconds have different reference numbers.
C19_ReferenceNumber ==
    /\ \A p \in issued : IsReferenceOf(p.ref, p.t)
    /\ \A p \in issued : \A q \in issued : p.t # q.t => p.ref # q.ref

\* two resolutions one second apart, across the turn of a minute
C19_Witness ==
    issued =
        { [ t |-> 59, ref |-> << "R", "E", "F", "-", "2", "0", "2", "5", "0", "6",
                                 "0", "1", "0", "0", "0", "0", "5", "9" >> ],
          [ t |-> 60, ref |-> << "R", "E", "F", "-", "2", "0", "2", "5", "0", "6",
                                 "0", "1", "0", "0", "0", "1", "0", "0" >> ] }

----------------------------------------------------------------------------
(* C20 *)

\* C20: whenever an event disarms the synchronizer, captured_input becomes
\* exactly the text carried by that event, whether the event is a
\* transcription or a conversation item.
C20_CapturesEventText ==
    [][ (EventStep /\ waiting_for_input /\ ~waiting_for_input')
            => captured_input' = Some(firstEvent'[1].text) ]_vars

----------------------------------------------------------------------------
(* C21 *)

\* a step that arms the synchronizer (lines 85, 177, 244): the coroutine
\* comes to the await that follows an arm
ArmStep ==
    /\ pc' # pc
    /\ pc' \in { "say_ask_last4", "sleep_payment", "sleep_response" }

\* what the callback of the event ev writes to captured_input
CapturedFrom(ev) ==
    IF ev.chan = "transcribed" THEN Some(ev.text) ELSE Some(<< "1", "2", "3", "4" >>)

\* what verify_identity is about to read was captured after the most recent
\* arm: an event came since that arm, and captured_input is what the
\* callback of the first such event wrote
ReadsFreshCapture ==
    pc = "sleep_settle" =>
        /\ ~waiting_for_input
        /\ nEvents >= 1
        /\ captured_input # None
        /\ captured_input = CapturedFrom(firstEvent[1])

----------------------------------------------------------------------------
(* C22 *)

\* C22: in each verification attempt the prompt is issued before the
\* synchronizer is armed: while the prompt is being spoken the synchronizer
\* is not armed, so an event delivered then changes neither
\* waiting_for_input nor captured_input and is not captured as the answer.
C22_PromptBeforeArm ==
    [][ (EventStep /\ pc = "say_ask_last4") =>
            /\ ~waiting_for_input
            /\ UNCHANGED << waiting_for_input, captured_input >> ]_vars

----------------------------------------------------------------------------
(* C23 *)

\* the coroutine is at the corrective message of a failed attempt
AtCorrection == pc \in { "say_exactly_4_digits", "say_no_match" }

\* the context of a call that is not verified: as constructed
Unverified ==
    /\ ~context.verified
    /\ DOMAIN context.customer_info = { }
    /\ ~has_payment_plan(context)
    /\ ~ResolutionSet
    /\ DOMAIN context = { "verified", "customer_info", "call_start_time" }

\* C23: a failed verification attempt, malformed (fewer than 4 digits) or a
\* mismatch (4 digits other than the expected ones), takes the same path:
\* the attempt leaves the context unchanged (verified false, customer_info
\* empty, no payment_plan, no resolution), its corrective message is the
\* next say, and once that message is spoken the synchronizer is armed and
\* the prompt is issued again (when the say raises, either kind goes to the
\* handler of verify_identity).
C23_FailedAttemptSamePath ==
    /\ [](AtCorrection =>
            /\ Unverified
            /\ Len(reads) >= 1
            /\ reads[Len(reads)] # None
            /\ LET d == LastFourRule(reads[Len(reads)][1])
               IN  IF Len(d) < 4 THEN pc = "say_exactly_4_digits"
                   ELSE pc = "say_no_match" /\ d # << "1", "2", "3", "4" >>)
    /\ [][ (pc = "sleep_settle" /\ pc' \notin { pc, "say_thanks_verified" })
              => (AtCorrection' /\ context' = context) ]_vars
    /\ [][ (AtCorrection /\ pc' # pc) =>
              /\ context' = context
              /\ Len(said') = Len(said) + 1
              /\ said'[Len(said')].u =
                    (IF pc = "say_exactly_4_digits" THEN "exactly_4_digits" ELSE "no_match")
              /\ IF said'[Len(said')].ok
                 THEN pc' = "say_ask_last4" /\ waiting_for_input' /\ reads' = reads
                 ELSE pc' = "say_verify_error" ]_vars

\* a malformed attempt and a mismatch, each corrected, and the third prompt
\* under way with the context as constructed
C23_Witness ==
    /\ pc = "say_ask_last4"
    /\ reads = << Some(<< "1", "2" >>), Some(<< "9", "9", "9", "9" >>) >>
    /\ Spoken = << "compliance_warning", "greeting", "ask_last4",
                   "exactly_4_digits", "ask_last4", "no_match" >>
    /\ Unverified
    /\ waiting_for_input

----------------------------------------------------------------------------
(* C24 *)

\* C24: when an exception occurs while validating an attempt in
\* verify_identity, the phase speaks its apology and retries: once the
\* apology is spoken the prompt is issued again, and the call does not end.
C24_ErrorThenRetry ==
    [][ (pc = "say_verify_error" /\ pc' # pc /\ said'[Len(said')].ok) =>
            /\ pc' = "say_ask_last4"
            /\ ~RunEnded' ]_vars

----------------------------------------------------------------------------
(* C25 *)

\* C25: no failure of session.say escapes a phase function: the only say
\* whose exception reaches run()'s handler is run()'s own (the refusal of
\* line 50), and discuss_payment called on its own never raises.
C25_NoEscapeFromPhase ==
    /\ pc = "say_technical_issue" => caught = "cannot_proceed"
    /\ pc # "dp_raised"

----------------------------------------------------------------------------
(* C26 *)

\* the places of a turn: the prompt of verify_identity and its wait loop, and
\* the sleeps that stand for the caller's turn in discuss_payment and
\* handle_resolution
InsideTurn == pc \in { "say_ask_last4", "sleep_poll", "sleep_payment", "sleep_response" }

\* C26: the synchronizer is armed only while the workflow is waiting for an
\* utterance: outside a turn, and in particular after run() has returned or
\* raised, waiting_for_input is false, so an event arriving then changes
\* neither captured_input nor waiting_for_input.
C26_ArmedOnlyInsideTurn ==
    /\ [](waiting_for_input => InsideTurn)
    /\ [][ (EventStep /\ ~InsideTurn) =>
              UNCHANGED << waiting_for_input, captured_input >> ]_vars

----------------------------------------------------------------------------
(* C27 *)

\* C27: in every state of a call, resolution = success implies that verified
\* is true and that reference_number is set (to the reference number made at
\* line 232): no call is recorded as resolved without a successful identity
\* verification earlier in it.
C27_SuccessImpliesVerified ==
    (ResolutionSet /\ context.resolution = "success") =>
        /\ context.verified
        /\ context.account_last4 = << "1", "2", "3", "4" >>
        /\ "reference_number" \in DOMAIN context
        /\ ref_number # None
        /\ context.reference_number = ref_number[1]
        /\ \E i \in 1..Len(said) : said[i] = [ u |-> "thanks_verified", ok |-> TRUE ]

\* a verified call resolved with success, the discussion of the payment
\* having failed on the way
C27_Witness ==
    /\ pc = "returned"
    /\ ResolutionSet
    /\ context.resolution = "success"
    /\ context.verified
    /\ context.reference_number = make_ref_number(now)
    /\ ~has_payment_plan(context)

----------------------------------------------------------------------------
(* C28 *)

\* every say attempted so far has completed
AllSaysComplete == \A i \in 1..Len(said) : said[i].ok

\* verify_identity is about to read an input whose last four digits are 1234
ReadsExpected == pc = "sleep_settle" /\ YieldsExpected(captured_input)

\* run() has returned with resolution = success
EndedInSuccess ==
    pc = "returned" /\ ResolutionSet /\ context.resolution = "success"

\* C28: if every say completes, if an event is eventually delivered whenever
\* the workflow waits for an utterance, and if a captured input whose last
\* four digits are 1234 eventually comes to be read, then run() eventually
\* returns with resolution = success.
C28_Liveness ==
    ( /\ []AllSaysComplete
      /\ (pc = "sleep_poll" /\ waiting_for_input) ~> ~waiting_for_input
      /\ <>ReadsExpected )
    => <>EndedInSuccess

\* a call that every say of which completed, verified at the second attempt
\* and resolved with its payment plan
C28_Witness ==
    /\ EndedInSuccess
    /\ AllSaysComplete
    /\ TimesSpoken("ask_last4") = 2
    /\ has_payment_plan(context)

====
